---- MODULE Spec2Model ----
(***************************************************************************)
(* State-machine model of hildebrand.py (the Glow client): the session     *)
(* object, the accessToken property with its refresh, the resource         *)
(* listing, the fetch accessors, the derived accessors and the two module  *)
(* level helpers toCost and postRequest.                                   *)
(*                                                                         *)
(* Every Python call is a frame on `stack`; a frame blocks at pc "await"   *)
(* while urlopen is in flight, and the service's answer is the input of    *)
(* the step that resumes it.  An exception unwinds the whole stack: the    *)
(* only try/except blocks of the file are inside toCost and postRequest.   *)
(***************************************************************************)
EXTENDS Integers, Sequences, FiniteSets, TLC

VARIABLES
    now,      \* time.time() / datetime.today(), one clock, in minutes
    sess,     \* the attributes of the Glow object (self)
    stack,    \* call stack of the running operation, innermost frame last
    retv,     \* value handed from a frame that returned to its caller
    op,       \* the operation the caller invoked and how it ended
    result,   \* what that operation returned
    log,      \* requests handed to postRequest during the operation, with answers
    cin,      \* toCost's arguments (rate, ammount, unit)
    cout,     \* toCost's return value
    cpc       \* "off" | "ready" | "done": position of the toCost call

vars == <<now, sess, stack, retv, op, result, log, cin, cout, cpc>>
sessionVars == <<now, sess, stack, retv, op, result, log>>
costVars == <<cin, cout, cpc>>

----------------------------------------------------------------------------
(* Bounds of the model *)

MaxTime == 1      \* the clock stops advancing here
MaxDepth == 5     \* frames before the interpreter raises RecursionError
MaxRes == 2       \* longest resource list the service returns

----------------------------------------------------------------------------
(* Python values *)

PyNone == [k |-> "none"]
PyDict(f) == [k |-> "dict", v |-> f]
PyList(s) == [k |-> "list", v |-> s]
PyTok(t) == [k |-> "token", v |-> t]

RECURSIVE Gcd(_, _)
Gcd(a, b) == IF b = 0 THEN a ELSE Gcd(b, a % b)

Abs(n) == IF n < 0 THEN -n ELSE n

\* int and float objects; a float is kept as an exact fraction in lowest terms
PyInt(n) == [t |-> "int", n |-> n, d |-> 1]
PyFloat(n, d) ==
    LET g == Gcd(Abs(n), d) IN
    IF n = 0 THEN [t |-> "float", n |-> 0, d |-> 1]
    ELSE [t |-> "float", n |-> n \div g, d |-> d \div g]
PyStr(s) == [t |-> "str", s |-> s]
PyNoneNum == [t |-> "none"]

IsNumber(x) == x.t \in {"int", "float"}

Ok(v) == [exc |-> "none", val |-> v]
Exc(e) == [exc |-> e, val |-> PyNone]

\* s repeated n times (the empty string for n <= 0)
Repeat(s, n) ==
    IF n <= 0 THEN <<>> ELSE [i \in 1..(n * Len(s)) |-> s[((i - 1) % Len(s)) + 1]]

\* a / b  with b an int literal
PyTrueDiv(a, b) ==
    IF IsNumber(a) THEN Ok(PyFloat(a.n, a.d * b)) ELSE Exc("TypeError")

\* a * b
PyMul(a, b) ==
    IF IsNumber(a) /\ IsNumber(b)
    THEN IF a.t = "int" /\ b.t = "int"
         THEN Ok(PyInt(a.n * b.n))
         ELSE Ok(PyFloat(a.n * b.n, a.d * b.d))
    ELSE IF a.t = "str" /\ b.t = "int" THEN Ok(PyStr(Repeat(a.s, b.n)))
    ELSE IF a.t = "int" /\ b.t = "str" THEN Ok(PyStr(Repeat(b.s, a.n)))
    ELSE Exc("TypeError")

PyNot_NoneOnly(x) == x.k = "none"

\* not x
PyNot(x) ==
    \/ x.k = "none"
    \/ x.k = "dict" /\ DOMAIN x.v = {}
    \/ x.k = "list" /\ Len(x.v) = 0

\* x[key] with key a string
Subscript(x, key) ==
    IF x.k = "dict"
    THEN IF key \in DOMAIN x.v THEN Ok(x.v[key]) ELSE Exc("KeyError")
    ELSE Exc("TypeError")

----------------------------------------------------------------------------
(* Utility functions *)

Kilo == 1000

\* try: if unit == 'W': ammount = ammount/1000; return ammount * rate
\* except: return 0
toCost(rate, ammount, unit) ==
    LET a == IF unit = "W" THEN PyTrueDiv(ammount, Kilo) ELSE Ok(ammount) IN
    IF a.exc # "none" THEN PyInt(0)
    ELSE LET m == PyMul(a.val, rate) IN
         IF m.exc # "none" THEN PyInt(0) ELSE m.val

\* What urlopen did: "ok" (a 2xx answer with a JSON body), "http_error"
\* (HTTPError: a non-2xx answer), "url_error" (URLError: DNS or connection
\* failure), "timeout" (socket.timeout, which is TimeoutError).
Outcome(kind, body) == [kind |-> kind, body |-> body]
TransportFailures == {"http_error", "url_error", "timeout"}

postRequest(o) ==
    IF o.kind = "http_error" THEN Ok(PyNone)
    ELSE IF o.kind = "url_error" THEN Exc("URLError")
    ELSE IF o.kind = "timeout" THEN Exc("TimeoutError")
    ELSE Ok(o.body)

----------------------------------------------------------------------------
(* The Glow object *)

Unset == "unset"

\* No object: every attribute is absent.  issuedExp is a history field: the
\* "exp" of the response _accessToken was taken from (-1 when it had none).
NoSession ==
    [alive |-> FALSE, _accessToken |-> 0, accountId |-> 0, expiration |-> -1,
     functionalGroupAccounts |-> 0, userGroups |-> 0,
     elecConsumptionId |-> Unset, gasConsumptionId |-> Unset, issuedExp |-> -1]

AuthKeys == {"token", "accountId", "exp", "functionalGroupAccounts", "userGroups"}

\* The assignments of lines 84-88 and 109-113, in order: <<response key, attribute>>
AuthOrder ==
    << <<"token", "_accessToken">>, <<"accountId", "accountId">>,
       <<"exp", "expiration">>,
       <<"functionalGroupAccounts", "functionalGroupAccounts">>,
       <<"userGroups", "userGroups">> >>

Store(s, attr, val, resp) ==
    IF attr = "_accessToken"
    THEN [s EXCEPT !._accessToken = val,
                   !.issuedExp = IF "exp" \in DOMAIN resp.v THEN resp.v["exp"] ELSE -1]
    ELSE [s EXCEPT ![attr] = val]

\* self.<attr> = resp[<key>], one statement after the other; the first failing
\* subscript raises and leaves the earlier assignments in place.
RECURSIVE AssignAuth(_, _, _)
AssignAuth(s, resp, i) ==
    IF i > Len(AuthOrder) THEN [sess |-> s, exc |-> "none"]
    ELSE LET g == Subscript(resp, AuthOrder[i][1]) IN
         IF g.exc # "none" THEN [sess |-> s, exc |-> g.exc]
         ELSE AssignAuth(Store(s, AuthOrder[i][2], g.val, resp), resp, i + 1)

TokenExpired_Skew(expiration, t) == expiration <= t + 1

\* self.expiration <= time.time()
TokenExpired(expiration, t) == expiration <= t

ScanResources_FirstWins(s, resp) ==
    LET E == {i \in 1..Len(resp) : resp[i].classifier = "electricity.consumption"}
        G == {i \in 1..Len(resp) : resp[i].classifier = "gas.consumption"}
        Min(S) == CHOOSE i \in S : \A j \in S : i <= j
    IN [s EXCEPT !.elecConsumptionId =
                     IF E = {} THEN @ ELSE resp[Min(E)].resourceId,
                 !.gasConsumptionId =
                     IF G = {} THEN @ ELSE resp[Min(G)].resourceId]

\* for r in resp: ... (the loop of getResources), from element i on
RECURSIVE ScanFrom(_, _, _)
ScanFrom(s, resp, i) ==
    IF i > Len(resp) THEN s
    ELSE LET r == resp[i]
             s1 == IF r.classifier = "electricity.consumption"
                   THEN [s EXCEPT !.elecConsumptionId = r.resourceId] ELSE s
             s2 == IF r.classifier = "gas.consumption"
                   THEN [s1 EXCEPT !.gasConsumptionId = r.resourceId] ELSE s1
         IN ScanFrom(s2, resp, i + 1)

ScanResources(s, resp) == ScanFrom(s, resp, 1)

----------------------------------------------------------------------------
(* Response bodies and the derived accessors' arithmetic *)

HalfHour == 30

SetItem(d, key, val) ==
    [x \in DOMAIN d \cup {key} |-> IF x = key THEN val ELSE d[x]]

\* _return['data'][0] = _gu['data'][0]
Substitute_Skip(ret, gu) ==
    IF gu.k # "dict" \/ ret.k # "dict" THEN Exc("TypeError") ELSE Ok(ret)

Substitute(ret, gu) ==
    IF gu.k # "dict" \/ ret.k # "dict" THEN Exc("TypeError")
    ELSE Ok(PyDict([ret.v EXCEPT !.data = [@ EXCEPT ![1] = gu.v.data[1]]]))

\* _tariff = <tariff>['data'][0]['plan'][0]['planDetail'] and the three
\* assignments that follow it in getElecCurrent and getGasCurrent
Combine(ret, tariff) ==
    IF tariff.k # "dict" \/ ret.k # "dict" THEN Exc("TypeError")
    ELSE LET _tariff == tariff.v.data[1].plan[1].planDetail
             rate == _tariff[1].rate
             standing == _tariff[2].standing
             r1 == SetItem(ret.v, "rate", rate)
             r2 == SetItem(r1, "standing", standing)
             cost == toCost(r2.rate, r2.data[1][2], r2.units)
         IN Ok(PyDict(SetItem(r2, "cost", cost)))

MeterCombine_Hundred(ret, gComp) ==
    IF gComp.k # "dict" \/ ret.k # "dict" THEN Exc("TypeError")
    ELSE LET m == PyMul(gComp.v.data[1][2], PyInt(100)) IN
         IF m.exc # "none" THEN Exc(m.exc)
         ELSE Ok(PyDict([ret.v EXCEPT !.data =
                            [@ EXCEPT ![1] = <<gComp.v.data[1][1], m.val>>]]))

\* _return['data'][0][0] = _gComp['data'][0][0]
\* _return['data'][0][1] = _gComp['data'][0][1] * 1000
MeterCombine(ret, gComp) ==
    IF gComp.k # "dict" \/ ret.k # "dict" THEN Exc("TypeError")
    ELSE LET m == PyMul(gComp.v.data[1][2], PyInt(Kilo)) IN
         IF m.exc # "none" THEN Exc(m.exc)
         ELSE Ok(PyDict([ret.v EXCEPT !.data =
                            [@ EXCEPT ![1] = <<gComp.v.data[1][1], m.val>>]]))

----------------------------------------------------------------------------
(* What the service may answer *)

Tokens == {1, 2}
Lifetimes == {0, 1}

\* An authenticate body issued as token n with expiry e, lacking the keys in M
AuthBody(n, e, M) ==
    PyDict([key \in AuthKeys \ M |-> IF key = "exp" THEN e ELSE n])

\* complete, lacking one key (before, at and after "exp" in the order of the
\* assignments), or empty
MissingSets == {{}, {"token"}, {"accountId"}, {"exp"}, {"userGroups"}, AuthKeys}

Failures == {Outcome(f, PyNone) : f \in TransportFailures}

AuthOutcomes ==
    Failures \cup
    {Outcome("ok", AuthBody(n, now + d, M)) :
        n \in Tokens \ {sess._accessToken}, d \in Lifetimes, M \in MissingSets}

Descriptor(c, r) == [classifier |-> c, resourceId |-> r]

Descriptors ==
    {Descriptor("electricity.consumption", "E1"),
     Descriptor("electricity.consumption", "E2"),
     Descriptor("gas.consumption", "G1"),
     Descriptor("gas.consumption", "G2"),
     Descriptor("electricity.consumption.cost", "E9")}

ResourceLists == UNION {[1..n -> Descriptors] : n \in 0..MaxRes}

ListOutcomes == Failures \cup {Outcome("ok", PyList(l)) : l \in ResourceLists}

ReadingBody(data, units, name) ==
    PyDict([data |-> data, units |-> units, name |-> name])

\* Bodies of the three reading-shaped sub-resources
ReadingBodies(kind) ==
    IF kind = "readings"
    THEN {ReadingBody(<< <<11, PyInt(7)>>, <<12, PyInt(2000)>> >>, "kWh", "window"),
          ReadingBody(<< <<12, PyInt(2000)>> >>, "W", "window")}
    ELSE IF kind = "current"
    THEN {ReadingBody(<< <<10, PyInt(5)>> >>, "W", "current"),
          ReadingBody(<< <<11, PyInt(3)>>, <<8, PyInt(1)>> >>, "kWh", "current")}
    ELSE {ReadingBody(<< <<10, PyInt(100)>>, <<9, PyInt(90)>> >>, "kWh", "meter"),
          ReadingBody(<< <<10, PyInt(100)>> >>, "Wh", "meter")}

ReadingOutcomes(kind) == Failures \cup {Outcome("ok", b) : b \in ReadingBodies(kind)}

TariffBody(rate, standing) ==
    PyDict([data |-> << [plan |-> << [planDetail |->
                << [rate |-> rate], [standing |-> standing] >>] >>] >>])

TariffBodies == {TariffBody(PyFloat(15, 100), PyInt(25)), TariffBody(PyInt(2), PyFloat(1, 2))}

TariffOutcomes == Failures \cup {Outcome("ok", b) : b \in TariffBodies}

----------------------------------------------------------------------------
(* Frames, the request log and control transfer *)

NoQuery == [from |-> 0, to |-> 0, period |-> "", offset |-> 0, function |-> ""]
NoRet == [has |-> FALSE, val |-> PyNone]
Idle == [name |-> "", status |-> "idle", exc |-> "none"]

\* fn: the function; pc: where it stands; id, q: its arguments; a: a local
Frame(fn, pc, id, q) == [fn |-> fn, pc |-> pc, id |-> id, q |-> q, a |-> PyNone]

Top == stack[Len(stack)]
At(fn, pc) == stack # <<>> /\ Top.fn = fn /\ Top.pc = pc
SetTop(f) == [stack EXCEPT ![Len(stack)] = f]

\* A request handed to postRequest.  token is 0 when head carries none;
\* checked tells that the token is what a read of self.accessToken, with its
\* expiry test, has just handed to this accessor.
Request(kind, id, token, q) ==
    [kind |-> kind, id |-> id, token |-> token,
     checked |-> retv.has /\ retv.val.k = "token",
     q |-> q, outcome |-> "pending", exc |-> "none", resp |-> PyNone]

\* The log keeps a body as returned, except a resource list, of which it keeps
\* the length: the list itself goes to getResources' loop and return value.
Logged(v) == IF v.k = "list" THEN [k |-> "list", n |-> Len(v.v)] ELSE v

Answered(o) ==
    LET r == postRequest(o) IN
    [log EXCEPT ![Len(log)] =
        [@ EXCEPT !.outcome = o.kind, !.exc = r.exc, !.resp = Logged(r.val)]]

\* An exception leaves every frame; one raised inside __init__ leaves no object.
Raise(e, s) ==
    /\ stack' = <<>>
    /\ retv' = NoRet
    /\ op' = [op EXCEPT !.status = "raised", !.exc = e]
    /\ result' = PyNone
    /\ sess' = IF op.name = "__init__" THEN NoSession ELSE s

Return(v, s) ==
    /\ sess' = s
    /\ stack' = SubSeq(stack, 1, Len(stack) - 1)
    /\ IF Len(stack) = 1
       THEN /\ op' = [op EXCEPT !.status = "returned"]
            /\ result' = v
            /\ retv' = NoRet
       ELSE /\ retv' = [has |-> TRUE, val |-> v]
            /\ UNCHANGED <<op, result>>

\* The top frame moves on to cont and calls callee.
Invoke(cont, callee, s) ==
    IF Len(stack) + 1 > MaxDepth
    THEN Raise("RecursionError", s)
    ELSE /\ stack' = Append(SetTop(cont), callee)
         /\ retv' = NoRet
         /\ sess' = s
         /\ UNCHANGED <<op, result>>

----------------------------------------------------------------------------
(* Glow.__init__ *)

Construct ==
    /\ op.status = "idle" /\ ~sess.alive
    /\ op' = [name |-> "__init__", status |-> "running", exc |-> "none"]
    /\ stack' = <<Frame("__init__", "await", "", NoQuery)>>
    /\ log' = <<Request("auth", "", 0, NoQuery)>>
    /\ UNCHANGED <<now, sess, retv, result, costVars>>

Init_Auth ==
    /\ At("__init__", "await")
    /\ \E o \in AuthOutcomes :
         LET r == postRequest(o) IN
         /\ log' = Answered(o)
         /\ IF r.exc # "none" THEN Raise(r.exc, sess)
            ELSE IF PyNot(r.val) THEN Raise("AuthFailure", sess)
            ELSE LET a == AssignAuth([NoSession EXCEPT !.alive = TRUE], r.val, 1) IN
                 IF a.exc # "none" THEN Raise(a.exc, a.sess)
                 ELSE Invoke([Top EXCEPT !.pc = "resources"],
                             Frame("getResources", "head", "", NoQuery), a.sess)
    /\ UNCHANGED <<now, costVars>>

Init_Return ==
    /\ At("__init__", "resources") /\ retv.has
    /\ Return(PyNone, sess)
    /\ UNCHANGED <<now, log, costVars>>

----------------------------------------------------------------------------
(* Glow.accessToken *)

AccessToken_Check ==
    /\ At("accessToken", "check")
    /\ IF TokenExpired(sess.expiration, now)
       THEN /\ stack' = SetTop([Top EXCEPT !.pc = "await"])
            /\ log' = Append(log, Request("auth", "", 0, NoQuery))
            /\ UNCHANGED <<sess, retv, op, result>>
       ELSE /\ Return(PyTok(sess._accessToken), sess)
            /\ UNCHANGED log
    /\ UNCHANGED <<now, costVars>>

AccessToken_Refresh ==
    /\ At("accessToken", "await")
    /\ \E o \in AuthOutcomes :
         LET r == postRequest(o) IN
         /\ log' = Answered(o)
         /\ IF r.exc # "none" THEN Raise(r.exc, sess)
            ELSE LET a == AssignAuth(sess, r.val, 1) IN
                 IF a.exc # "none" THEN Raise(a.exc, a.sess)
                 ELSE Invoke([Top EXCEPT !.pc = "resources"],
                             Frame("getResources", "head", "", NoQuery), a.sess)
    /\ UNCHANGED <<now, costVars>>

AccessToken_Return ==
    /\ At("accessToken", "resources") /\ retv.has
    /\ Return(PyTok(sess._accessToken), sess)
    /\ UNCHANGED <<now, log, costVars>>

----------------------------------------------------------------------------
(* The accessors that build head, post one request and hand back the answer *)

FetchFns ==
    {"getResources", "getReading", "getCurResource", "getElecTariff",
     "getGasTariff", "getElecMeterRead", "getGasMeterRead"}

PlainFetchFns == FetchFns \ {"getResources", "getGasMeterRead"}

\* The sub-resource the function's URL names
Kind(fn) ==
    CASE fn = "getResources" -> "resource"
      [] fn = "getReading" -> "readings"
      [] fn = "getCurResource" -> "current"
      [] fn \in {"getElecTariff", "getGasTariff"} -> "tariff"
      [] OTHER -> "meterread"

\* The resource id the function puts in its URL: its argument, or the
\* attribute it reads after head is built
UrlId(f) ==
    CASE f.fn = "getResources" -> ""
      [] f.fn \in {"getReading", "getCurResource"} -> f.id
      [] f.fn \in {"getElecTariff", "getElecMeterRead"} -> sess.elecConsumptionId
      [] OTHER -> sess.gasConsumptionId

\* head = {"applicationId": ..., "token": self.accessToken}
Fetch_Head ==
    /\ stack # <<>> /\ Top.fn \in FetchFns /\ Top.pc = "head"
    /\ Invoke([Top EXCEPT !.pc = "send"], Frame("accessToken", "check", "", NoQuery), sess)
    /\ UNCHANGED <<now, log, costVars>>

\* _res_url = ...; postRequest(_res_url, head) is entered
Fetch_Send ==
    /\ stack # <<>> /\ Top.fn \in FetchFns /\ Top.pc = "send" /\ retv.has
    /\ IF UrlId(Top) = Unset
       THEN Raise("AttributeError", sess) /\ UNCHANGED log
       ELSE /\ stack' = SetTop([Top EXCEPT !.pc = "await"])
            /\ log' = Append(log, Request(Kind(Top.fn), UrlId(Top), retv.val.v, Top.q))
            /\ retv' = NoRet
            /\ UNCHANGED <<sess, op, result>>
    /\ UNCHANGED <<now, costVars>>

GetResources_Response ==
    /\ At("getResources", "await")
    /\ \E o \in ListOutcomes :
         LET r == postRequest(o) IN
         /\ log' = Answered(o)
         /\ IF r.exc # "none" THEN Raise(r.exc, sess)
            ELSE IF r.val.k # "list" THEN Raise("TypeError", sess)
            ELSE Return(r.val, ScanResources(sess, r.val.v))
    /\ UNCHANGED <<now, costVars>>

Fetch_Response ==
    /\ stack # <<>> /\ Top.fn \in PlainFetchFns /\ Top.pc = "await"
    /\ \E o \in (IF Kind(Top.fn) = "tariff" THEN TariffOutcomes
                 ELSE ReadingOutcomes(Kind(Top.fn))) :
         LET r == postRequest(o) IN
         /\ log' = Answered(o)
         /\ IF r.exc # "none" THEN Raise(r.exc, sess) ELSE Return(r.val, sess)
    /\ UNCHANGED <<now, costVars>>

----------------------------------------------------------------------------
(* Glow.getElecCurrent *)

ElecCurrent_Start ==
    /\ At("getElecCurrent", "start")
    /\ IF sess.elecConsumptionId = Unset
       THEN Raise("AttributeError", sess)
       ELSE Invoke([Top EXCEPT !.pc = "tariff"],
                   Frame("getCurResource", "head", sess.elecConsumptionId, NoQuery), sess)
    /\ UNCHANGED <<now, log, costVars>>

ElecCurrent_Tariff ==
    /\ At("getElecCurrent", "tariff") /\ retv.has
    /\ Invoke([Top EXCEPT !.pc = "combine", !.a = retv.val],
              Frame("getElecTariff", "head", "", NoQuery), sess)
    /\ UNCHANGED <<now, log, costVars>>

ElecCurrent_Combine ==
    /\ At("getElecCurrent", "combine") /\ retv.has
    /\ LET c == Combine(Top.a, retv.val) IN
       IF c.exc # "none" THEN Raise(c.exc, sess) ELSE Return(c.val, sess)
    /\ UNCHANGED <<now, log, costVars>>

----------------------------------------------------------------------------
(* Glow.getGasCurrent *)

GasCurrent_Start ==
    /\ At("getGasCurrent", "start")
    /\ IF sess.gasConsumptionId = Unset
       THEN Raise("AttributeError", sess)
       ELSE Invoke([Top EXCEPT !.pc = "current"],
                   Frame("getReading", "head", sess.gasConsumptionId,
                         [from |-> now - HalfHour, to |-> now, period |-> "PT30M",
                          offset |-> 0, function |-> "sum"]), sess)
    /\ UNCHANGED <<now, log, costVars>>

GasCurrent_Current ==
    /\ At("getGasCurrent", "current") /\ retv.has
    /\ Invoke([Top EXCEPT !.pc = "subst", !.a = retv.val],
              Frame("getCurResource", "head", sess.gasConsumptionId, NoQuery), sess)
    /\ UNCHANGED <<now, log, costVars>>

GasCurrent_Subst ==
    /\ At("getGasCurrent", "subst") /\ retv.has
    /\ LET c == Substitute(retv.val, Top.a) IN
       IF c.exc # "none" THEN Raise(c.exc, sess)
       ELSE Invoke([Top EXCEPT !.pc = "combine", !.a = c.val],
                   Frame("getGasTariff", "head", "", NoQuery), sess)
    /\ UNCHANGED <<now, log, costVars>>

GasCurrent_Combine ==
    /\ At("getGasCurrent", "combine") /\ retv.has
    /\ LET c == Combine(Top.a, retv.val) IN
       IF c.exc # "none" THEN Raise(c.exc, sess) ELSE Return(c.val, sess)
    /\ UNCHANGED <<now, log, costVars>>

----------------------------------------------------------------------------
(* Glow.getGasMeterRead *)

GasMeterRead_Response ==
    /\ At("getGasMeterRead", "await")
    /\ \E o \in ReadingOutcomes("meterread") :
         LET r == postRequest(o) IN
         /\ log' = Answered(o)
         /\ IF r.exc # "none" THEN Raise(r.exc, sess)
            ELSE Invoke([Top EXCEPT !.pc = "combine", !.a = r.val],
                        Frame("getCurResource", "head", sess.gasConsumptionId, NoQuery),
                        sess)
    /\ UNCHANGED <<now, costVars>>

GasMeterRead_Combine ==
    /\ At("getGasMeterRead", "combine") /\ retv.has
    /\ LET c == MeterCombine(Top.a, retv.val) IN
       IF c.exc # "none" THEN Raise(c.exc, sess) ELSE Return(c.val, sess)
    /\ UNCHANGED <<now, log, costVars>>

----------------------------------------------------------------------------
(* The caller and the clock *)

Properties ==
    {"accessToken", "getResources", "getElecCurrent", "getGasCurrent", "getElecTariff",
     "getGasTariff", "getElecMeterRead", "getGasMeterRead"}

StartPc(name) ==
    IF name = "accessToken" THEN "check"
    ELSE IF name \in {"getElecCurrent", "getGasCurrent"} THEN "start" ELSE "head"

Running(name) == [name |-> name, status |-> "running", exc |-> "none"]

\* glow.<property>
CallProperty ==
    /\ op.status = "idle" /\ sess.alive
    /\ \E name \in Properties :
         /\ op' = Running(name)
         /\ stack' = <<Frame(name, StartPc(name), "", NoQuery)>>
    /\ UNCHANGED <<now, sess, retv, result, log, costVars>>

\* glow.getReading(id, dfrom, dto) with the defaults, glow.getCurResource(id)
CallMethod ==
    /\ op.status = "idle" /\ sess.alive
    /\ \E id \in {sess.elecConsumptionId, sess.gasConsumptionId} \ {Unset} :
         \E name \in {"getReading", "getCurResource"} :
           /\ op' = Running(name)
           /\ stack' = <<Frame(name, "head", id,
                               IF name = "getCurResource" THEN NoQuery
                               ELSE [from |-> 0, to |-> now, period |-> "P1D",
                                     offset |-> 0, function |-> "sum"])>>
    /\ UNCHANGED <<now, sess, retv, result, log, costVars>>

\* The caller takes the value or the exception.
Finish ==
    /\ op.status \in {"returned", "raised"}
    /\ op' = Idle
    /\ result' = PyNone
    /\ log' = <<>>
    /\ UNCHANGED <<now, sess, stack, retv, costVars>>

\* Time passes between calls and while a request is in flight.
Tick ==
    /\ now < MaxTime
    /\ op.status = "idle" \/ (stack # <<>> /\ Top.pc = "await")
    /\ now' = now + 1
    /\ UNCHANGED <<sess, stack, retv, op, result, log, costVars>>

----------------------------------------------------------------------------
(* Specification of the session *)

NoCost == [rate |-> PyInt(0), ammount |-> PyInt(0), unit |-> ""]

Init ==
    /\ now = 0
    /\ sess = NoSession
    /\ stack = <<>>
    /\ retv = NoRet
    /\ op = Idle
    /\ result = PyNone
    /\ log = <<>>
    /\ cin = NoCost
    /\ cout = PyNoneNum
    /\ cpc = "off"

Next ==
    \/ Construct
    \/ Init_Auth
    \/ Init_Return
    \/ AccessToken_Check
    \/ AccessToken_Refresh
    \/ AccessToken_Return
    \/ Fetch_Head
    \/ Fetch_Send
    \/ GetResources_Response
    \/ Fetch_Response
    \/ ElecCurrent_Start
    \/ ElecCurrent_Tariff
    \/ ElecCurrent_Combine
    \/ GasCurrent_Start
    \/ GasCurrent_Current
    \/ GasCurrent_Subst
    \/ GasCurrent_Combine
    \/ GasMeterRead_Response
    \/ GasMeterRead_Combine
    \/ CallProperty
    \/ CallMethod
    \/ Finish
    \/ Tick

Spec == Init /\ [][Next]_vars

----------------------------------------------------------------------------
(* Specification of toCost alone: the arguments are drawn, the call is made *)

Rates == {PyFloat(15, 100), PyInt(2), PyInt(0), PyStr(<<"x">>), PyNoneNum}
Ammounts == {PyInt(2000), PyInt(2), PyFloat(5, 2), PyStr(<<"a", "b">>), PyNoneNum}
Units == {"W", "kWh", "Wh"}

InitCost ==
    /\ now = 0
    /\ sess = NoSession
    /\ stack = <<>>
    /\ retv = NoRet
    /\ op = Idle
    /\ result = PyNone
    /\ log = <<>>
    /\ cin \in [rate : Rates, ammount : Ammounts, unit : Units]
    /\ cout = PyNoneNum
    /\ cpc = "ready"

ToCost ==
    /\ cpc = "ready"
    /\ cout' = toCost(cin.rate, cin.ammount, cin.unit)
    /\ cpc' = "done"
    /\ UNCHANGED <<cin, sessionVars>>

NextCost == ToCost

SpecCost == InitCost /\ [][NextCost]_vars

----------------------------------------------------------------------------
(* Properties *)

AuthIdx == {i \in DOMAIN log : log[i].kind = "auth"}
KindIdx(kind) == {i \in DOMAIN log : log[i].kind = kind}
Kinds == [i \in DOMAIN log |-> log[i].kind]

\* postRequest handed None back for request i
Absent(i) == log[i].outcome # "pending" /\ log[i].exc = "none" /\ log[i].resp = PyNone

\* The top frame returned normally in this step; the value it handed back
Returned == Len(stack') = Len(stack) - 1 /\ op'.status # "raised"
Handed == IF Len(stack) = 1 THEN result' ELSE retv'.val

\* resourceId of the last descriptor of l classified c, prev when there is none
LastId(l, c, prev) ==
    LET S == {i \in 1..Len(l) : l[i].classifier = c} IN
    IF S = {} THEN prev ELSE l[CHOOSE i \in S : \A j \in S : j <= i].resourceId

\* x is the number (amount / divisor) * rate
IsProduct(x, amount, divisor, rate) ==
    /\ IsNumber(x)
    /\ x.n * amount.d * divisor * rate.d = amount.n * rate.n * x.d

\* C1: a read of accessToken while expiration > now hands back the stored
\* token, sends no request and leaves every attribute of the session as it was.
C1_CachedToken ==
    [][(At("accessToken", "check") /\ sess.expiration > now) =>
         /\ log' = log
         /\ sess' = sess
         /\ Returned
         /\ Handed = PyTok(sess._accessToken)]_vars

C1_Witness ==
    /\ op.name = "accessToken" /\ op.status = "returned"
    /\ sess.expiration > now
    /\ log = <<>>
    /\ result = PyTok(sess._accessToken)

\* C2: a read of accessToken that finds the token expired sends exactly one
\* authenticate request, ends without RecursionError, and returns the token of
\* that response with expiration set to its exp, whatever exp the service sent.
C2_OneReauthentication ==
    op.name = "accessToken" =>
        /\ Cardinality(AuthIdx) <= 1
        /\ op.exc # "RecursionError"
        /\ (op.status = "returned" /\ AuthIdx # {}) =>
              /\ result = PyTok(log[1].resp.v["token"])
              /\ sess.expiration = log[1].resp.v["exp"]

\* C3: the stored expiration is the exp issued with the stored token, and
\* every request that carries a token was preceded, in the same accessor, by
\* the expiry test of accessToken.
C3_ExpiryReflectsToken ==
    /\ sess.alive => sess.expiration = sess.issuedExp
    /\ \A i \in DOMAIN log : log[i].token # 0 => log[i].checked

\* A body that is None or the empty JSON object
EmptyOrAbsent(x) == x.k = "none" \/ (x.k = "dict" /\ Cardinality(DOMAIN x.v) = 0)

\* C4: when the authenticate request of __init__ comes back empty or absent,
\* construction raises AuthFailure, leaves no object and no attribute, and
\* sends no resource-listing request.
C4_AuthFailure ==
    (op.name = "__init__" /\ log # <<>> /\ log[1].outcome # "pending"
        /\ log[1].exc = "none" /\ EmptyOrAbsent(log[1].resp)) =>
        /\ op.status = "raised" /\ op.exc = "AuthFailure"
        /\ sess = NoSession
        /\ stack = <<>>
        /\ Len(log) = 1

C4_Witness ==
    /\ op.name = "__init__" /\ op.status = "raised" /\ op.exc = "AuthFailure"
    /\ log[1].resp.k = "dict"
    /\ sess = NoSession

\* C5: postRequest never raises: on a non-2xx answer, a DNS/connection failure
\* or a timeout it returns None.
C5_TransportNeverRaises ==
    \A i \in DOMAIN log :
        log[i].outcome \in TransportFailures => log[i].exc = "none" /\ log[i].resp = PyNone

\* C6: outside __init__, no operation raises once postRequest has handed it None.
C6_OnlyConstructionRaises ==
    ~ /\ op.name \notin {"", "__init__"}
      /\ op.status = "raised"
      /\ log # <<>> /\ Absent(Len(log))

\* C7: getResources leaves in elecConsumptionId / gasConsumptionId the
\* resourceId of the last descriptor classified exactly "electricity.consumption"
\* / "gas.consumption", and the previous value when the list has none.
C7_LastDescriptorWins ==
    [][(At("getResources", "await") /\ Returned) =>
         /\ sess'.elecConsumptionId =
               LastId(Handed.v, "electricity.consumption", sess.elecConsumptionId)
         /\ sess'.gasConsumptionId =
               LastId(Handed.v, "gas.consumption", sess.gasConsumptionId)]_vars

C7_Witness ==
    /\ op.name = "getResources" /\ op.status = "returned"
    /\ Len(result.v) = 2
    /\ result.v[1].classifier = "electricity.consumption"
    /\ result.v[2].classifier = "electricity.consumption"
    /\ result.v[1].resourceId # result.v[2].resourceId
    /\ sess.elecConsumptionId = result.v[2].resourceId
    /\ sess.gasConsumptionId # Unset

C9_GasMeterRead ==
    (op.name = "getGasMeterRead" /\ op.status = "returned") =>
        /\ Cardinality(KindIdx("meterread")) = 1
        /\ Cardinality(KindIdx("current")) = 1
        /\ LET m == log[CHOOSE i \in KindIdx("meterread") : TRUE].resp.v
               c == log[CHOOSE i \in KindIdx("current") : TRUE].resp.v
               out == result.v
           IN /\ out.data[1][1] = c.data[1][1]
              /\ IsProduct(out.data[1][2], c.data[1][2], 1, PyInt(1000))
              /\ Len(out.data) = Len(m.data)
              /\ \A j \in 2..Len(m.data) : out.data[j] = m.data[j]
              /\ DOMAIN out = DOMAIN m
              /\ out.units = m.units /\ out.name = m.name

C9_Witness ==
    /\ op.name = "getGasMeterRead" /\ op.status = "returned"
    /\ \E i \in KindIdx("meterread") : log[i].resp.v.data[1] = <<10, PyInt(100)>>
    /\ result.v.data = << <<11, PyInt(3000)>>, <<9, PyInt(90)>> >>

\* C10: toCost returns (amount / 1000) * rate for unit "W" and amount * rate
\* otherwise when both are numbers, and 0 whenever either is not a number.
C10_ToCost ==
    cpc = "done" =>
        IF IsNumber(cin.rate) /\ IsNumber(cin.ammount)
        THEN IsProduct(cout, cin.ammount, IF cin.unit = "W" THEN 1000 ELSE 1, cin.rate)
        ELSE cout = PyInt(0)

====
